---- MODULE Spec2Model ----
(***************************************************************************)
(* Model of holopy/process/centerfinder.py: center_find, image_gradient    *)
(* and hough.                                                              *)
(*                                                                         *)
(* A grid g is a function of the row giving a function of the column       *)
(* (both 0-based): g[r][c].  A                                             *)
(* gradient value v stored in x_deriv / y_deriv denotes the real number    *)
(* v / gunit.  All inputs are chosen so that the float64 arithmetic of     *)
(* the code is exact on them (small integers, dyadic scales), so the       *)
(* rational arithmetic below gives the results numpy gives.  The IEEE      *)
(* special values the code produces (division by zero gives an infinity,   *)
(* infinity times zero gives a NaN) are modelled by the kinds "inf" and    *)
(* "nan".                                                                  *)
(***************************************************************************)
EXTENDS Integers, Sequences, FiniteSets, TLC

VARIABLES
    pc,             \* position in center_find / hough
    image,          \* the image passed to center_find (<<>> when hough is called directly)
    shape,          \* <<rows, cols>> of the image and of every grid derived from it
    x_deriv,        \* gradient grid, row direction (numerators)
    y_deriv,        \* gradient grid, column direction, sign flipped (numerators)
    gunit,          \* common denominator of the gradient values
    scale,          \* <<num, den>>, the threshold fraction
    accumulator,    \* the voting grid
    points_to_vote, \* sequence of <<row, col>>, in the order the loop takes them
    voted,          \* indices of points_to_vote the loop has processed, in order
    peak,           \* <<m, n>>, the coarse center
    outcome,        \* "running", "ok", or the name of the exception raised
    res             \* the returned center: [row |-> <<num, den>>, col |-> <<num, den>>]

vars == <<pc, image, shape, x_deriv, y_deriv, gunit, scale, accumulator,
          points_to_vote, voted, peak, outcome, res>>

\* ------------------------------------------------------------------ bounds

\* Side of the large square grids (the smallest side on which the refinement
\* window can fit is 21).
Dim == 22
\* Side of the largest small image handed to center_find.
MaxSmall == 3
\* Number of pixels brighter than the background in a small image.
MaxBright == 2
\* Number of non-zero pixels of a gradient field handed to hough directly.
MaxActive == 2
\* Side of the grid holding the concentric-circle gradient field.
RingDim == 40

\* Half-width of the refinement window: the literal 10 of lines 137 and 139.
Window == 10

\* ------------------------------------------------------------------ helpers

Abs(x) == IF x < 0 THEN -x ELSE x

Rows(sh) == 0 .. (sh[1] - 1)
Cols(sh) == 0 .. (sh[2] - 1)
Cells(sh) == Rows(sh) \X Cols(sh)

\* The value of grid g at the index pair p.
At(g, p) == g[p[1]][p[2]]

Min(S) == CHOOSE x \in S : \A y \in S : x <= y

\* Floor of num / den, den > 0.
FloorDiv(num, den) == num \div den

\* ------------------------------------------------------------------ floats

Fin(n, d) == [k |-> "fin", num |-> IF d < 0 THEN -n ELSE n, den |-> Abs(d)]
Inf == [k |-> "inf", num |-> 0, den |-> 1]   \* an infinity of either sign
NaN == [k |-> "nan", num |-> 0, den |-> 1]

\* a / b for two finite numbers given as integers over the same unit.
FDiv(a, b) ==
    IF b = 0 THEN (IF a = 0 THEN NaN ELSE Inf)
    ELSE Fin(a, b)

\* 1 / x
FInv(x) ==
    IF x.k = "nan" THEN NaN
    ELSE IF x.k = "inf" THEN Fin(0, 1)
    ELSE IF x.num = 0 THEN Inf
    ELSE Fin(x.den, x.num)

\* x * j for an integer j
FMulInt(x, j) ==
    IF x.k = "nan" THEN NaN
    ELSE IF x.k = "inf" THEN (IF j = 0 THEN NaN ELSE Inf)
    ELSE Fin(x.num * j, x.den)

\* c - x for an integer c
FSubFrom(c, x) ==
    IF x.k = "fin" THEN Fin(c * x.den - x.num, x.den) ELSE x

\* numpy.around: round to the nearest integer, halves to the even one.
Around(x) ==
    IF x.k # "fin" THEN x
    ELSE LET fl == FloorDiv(x.num, x.den)
             twice == 2 * (x.num - fl * x.den)
         IN  IF twice < x.den THEN Fin(fl, 1)
             ELSE IF twice > x.den THEN Fin(fl + 1, 1)
             ELSE IF fl % 2 = 0 THEN Fin(fl, 1) ELSE Fin(fl + 1, 1)

\* abs(x) > 1.
AbsGreaterOne(x) ==
    IF x.k = "nan" THEN FALSE
    ELSE IF x.k = "inf" THEN TRUE
    ELSE Abs(x.num) > x.den

\* The mask with its lower bound forgotten: (line < dim) alone.
InMaskNoLowerBound(x, dim) == x.k = "fin" /\ x.num < dim * x.den

\* The mask of lines 124-131: (line >= 0) * (line < dim).  Every comparison
\* with a NaN is false, and an infinity fails one of the two.
InMask(x, dim) == x.k = "fin" /\ x.num >= 0 /\ x.num < dim * x.den

\* ------------------------------------------------------------ image_gradient

\* scipy.ndimage's default boundary mode 'reflect' for an offset of one:
\* (b a | a b c | c b).
Reflect(i, len) == IF i < 0 THEN 0 ELSE IF i >= len THEN len - 1 ELSE i

\* scipy.ndimage.sobel(img, axis = 0): correlate with [-1, 0, 1] along the
\* rows, then with [1, 2, 1] along the columns.
Sobel0(img, sh) ==
    LET d == [r \in Rows(sh) |-> [c \in Cols(sh) |->
                img[Reflect(r + 1, sh[1])][c] - img[Reflect(r - 1, sh[1])][c]]]
    IN  [r \in Rows(sh) |-> [c \in Cols(sh) |->
            d[r][Reflect(c - 1, sh[2])] + 2 * d[r][c] + d[r][Reflect(c + 1, sh[2])]]]

\* scipy.ndimage.sobel(img, axis = 1).
Sobel1(img, sh) ==
    LET d == [r \in Rows(sh) |-> [c \in Cols(sh) |->
                img[r][Reflect(c + 1, sh[2])] - img[r][Reflect(c - 1, sh[2])]]]
    IN  [r \in Rows(sh) |-> [c \in Cols(sh) |->
            d[Reflect(r - 1, sh[1])][c] + 2 * d[r][c] + d[Reflect(r + 1, sh[1])][c]]]

\* Lines 75-77: (gradx, grady).  No check of the image's shape is made.
image_gradient(img, sh) ==
    LET s1 == Sobel1(img, sh)
    IN  [gradx |-> Sobel0(img, sh),
         grady |-> [r \in Rows(sh) |-> [c \in Cols(sh) |-> -1 * s1[r][c]]]]

\* ------------------------------------------------------------------- hough

MagSq(gx, gy, p) == At(gx, p) * At(gx, p) + At(gy, p) * At(gy, p)

MaxMagSq(gx, gy, sh) ==
    LET S == {MagSq(gx, gy, p) : p \in Cells(sh)}
    IN  CHOOSE x \in S : \A y \in S : y <= x

\* The threshold test with >= in place of >: a pixel at the threshold votes.
QualifyingSetInclusive(gx, gy, sh, sc) ==
    LET S == {At(gx, p) * At(gx, p) + At(gy, p) * At(gy, p) : p \in Cells(sh)}
        mx == CHOOSE x \in S : \A y \in S : y <= x
    IN  {p \in Cells(sh) :
            (At(gx, p) * At(gx, p) + At(gy, p) * At(gy, p)) * sc[2] * sc[2]
                >= sc[1] * sc[1] * mx}

\* Lines 112-115: gradient_mag > scale * gradient_mag.max().  Both sides are
\* non-negative, so the comparison is made on the squares.
QualifyingSet(gx, gy, sh, sc) ==
    LET mx == MaxMagSq(gx, gy, sh)
    IN  {p \in Cells(sh) : MagSq(gx, gy, p) * sc[2] * sc[2] > sc[1] * sc[1] * mx}

\* Position of a cell in the flattened (C order) grid, and back
\* (scipy.unravel_index).
Flat(p, sh) == p[1] * sh[2] + p[2]
Unravel(k, sh) == <<k \div sh[2], k % sh[2]>>

\* The elements of S in row-major order, as scipy.where lists them: the
\* flattened grid is scanned and the cells of S are kept.
RowMajor(S, sh) ==
    LET Keep(p) == p \in S
    IN  SelectSeq([k \in 1 .. sh[1] * sh[2] |-> Unravel(k - 1, sh)], Keep)

\* Lines 115-116.
PointsToVote(gx, gy, sh, sc) == RowMajor(QualifyingSet(gx, gy, sh, sc), sh)

\* Line 121.
Slope(gxv, gyv) == FDiv(gyv, gxv)

\* The line drawn with the wrong sign: base + factor * (t - at).
LinePosMirrored(base, at, factor, t) ==
    Around(FSubFrom(base, FMulInt(factor, at - t)))

\* Lines 123 and 128: the rounded position of the line at index t, for the
\* pixel coordinate `at` along the swept axis and `base` along the other.
LinePos(base, at, factor, t) == Around(FSubFrom(base, FMulInt(factor, t - at)))

\* Lines 122-131: the (row, col) index pairs one pixel's line selects.  The
\* positions kept by the mask are integers in [0, dim), which int16 holds
\* exactly for every dim below 2^15.
LineCells(r, c, gxv, gyv, dim) ==
    LET slope == Slope(gxv, gyv)
    IN  IF AbsGreaterOne(slope)
        THEN {<<i, LinePos(c, r, slope, i).num>> :
                i \in {t \in 0 .. dim - 1 : InMask(LinePos(c, r, slope, t), dim)}}
        ELSE {<<LinePos(r, c, FInv(slope), j).num, j>> :
                j \in {t \in 0 .. dim - 1 : InMask(LinePos(r, c, FInv(slope), t), dim)}}

\* The cells the pixel p votes on.
VoteCells(gx, gy, sh, p) == LineCells(p[1], p[2], At(gx, p), At(gy, p), sh[1])

\* numpy indexing: an index i of an axis of length len is valid when
\* -len <= i < len, and a negative one counts from the end.
ValidIndex(i, len) == -len <= i /\ i < len
WrapIndex(i, len) == IF i < 0 THEN i + len ELSE i

\* Line 133 writing a mark instead of adding a vote: accumulator[...] = 1.
AddVotesOverwrite(acc, cells, sh) ==
    IF \A c \in cells : -sh[1] <= c[1] /\ c[1] < sh[1] /\ -sh[2] <= c[2] /\ c[2] < sh[2]
    THEN LET hit == {<<IF c[1] < 0 THEN c[1] + sh[1] ELSE c[1],
                       IF c[2] < 0 THEN c[2] + sh[2] ELSE c[2]>> : c \in cells}
         IN  [ok |-> TRUE,
              acc |-> [r \in Rows(sh) |-> [c \in Cols(sh) |->
                         IF <<r, c>> \in hit THEN 1 ELSE acc[r][c]]]]
    ELSE [ok |-> FALSE, acc |-> acc]

\* Line 133: accumulator[acc_rows, acc_cols] = accumulator[acc_rows, acc_cols] + 1.
\* An invalid index raises IndexError before anything is written.
AddVotes(acc, cells, sh) ==
    IF \A c \in cells : ValidIndex(c[1], sh[1]) /\ ValidIndex(c[2], sh[2])
    THEN LET hit == {<<WrapIndex(c[1], sh[1]), WrapIndex(c[2], sh[2])>> : c \in cells}
         IN  [ok |-> TRUE,
              acc |-> [r \in Rows(sh) |-> [c \in Cols(sh) |->
                         IF <<r, c>> \in hit THEN acc[r][c] + 1 ELSE acc[r][c]]]]
    ELSE [ok |-> FALSE, acc |-> acc]

\* argmax taking the last maximum of the flattened grid instead of the first.
ArgMaxLast(acc, sh) ==
    LET V == {At(acc, p) : p \in Cells(sh)}
        mx == CHOOSE x \in V : \A y \in V : y <= x
        K == {k \in 0 .. (sh[1] * sh[2] - 1) : acc[k \div sh[2]][k % sh[2]] = mx}
    IN  CHOOSE k \in K : \A j \in K : j <= k

\* Line 135: accumulator.argmax() is the first maximum of the flattened grid.
ArgMax(acc, sh) ==
    LET V == {At(acc, p) : p \in Cells(sh)}
        mx == CHOOSE x \in V : \A y \in V : y <= x
    IN  Min({k \in 0 .. (sh[1] * sh[2] - 1) : At(acc, Unravel(k, sh)) = mx})

CoarseCenter(acc, sh) == Unravel(ArgMax(acc, sh), sh)

\* The indices a[start:stop] selects in an axis of length len (Python slicing:
\* a negative start counts from the end, both ends are clipped).
SliceIdx(start, stop, len) ==
    LET s == IF start < 0 THEN (IF start + len < 0 THEN 0 ELSE start + len)
             ELSE (IF start > len THEN len ELSE start)
        e == IF stop < 0 THEN (IF stop + len < 0 THEN 0 ELSE stop + len)
             ELSE (IF stop > len THEN len ELSE stop)
    IN  [i \in 1 .. (IF e > s THEN e - s ELSE 0) |-> s + i - 1]

\* Index lists counted from the start of the window instead of the grid.
MGridFromZero(lo, hi) == [i \in 1 .. (hi - lo) |-> i - 1]

\* numpy.mgrid[lo:hi] along one axis: the integers lo .. hi - 1 themselves.
MGrid(lo, hi) == [i \in 1 .. (hi - lo) |-> lo + i - 1]

RECURSIVE SumUpTo(_, _)
SumUpTo(f, k) == IF k = 0 THEN 0 ELSE f[k] + SumUpTo(f, k - 1)

\* Line 137: small_sq, as the pair of index lists it is cut along.
SmallSq(acc, mn, sh) ==
    [rows |-> SliceIdx(mn[1] - Window, mn[1] + Window + 1, sh[1]),
     cols |-> SliceIdx(mn[2] - Window, mn[2] + Window + 1, sh[2])]

\* small_sq.sum()
WeightSum(acc, sq) ==
    SumUpTo([i \in 1 .. Len(sq.rows) |->
                SumUpTo([j \in 1 .. Len(sq.cols) |-> acc[sq.rows[i]][sq.cols[j]]],
                        Len(sq.cols))],
            Len(sq.rows))

NoResult == [row |-> <<0, 0>>, col |-> <<0, 0>>]

\* Lines 137-143.  scipy.average(a, None, weights) raises TypeError when the
\* shapes of a and weights differ, ZeroDivisionError when the weights sum to
\* zero, and otherwise returns sum(a * weights) / sum(weights).
Refinement(acc, mn, sh) ==
    LET sq == SmallSq(acc, mn, sh)
        rowNum == MGrid(mn[1] - Window, mn[1] + Window + 1)
        colNum == MGrid(mn[2] - Window, mn[2] + Window + 1)
        scl == WeightSum(acc, sq)
        rowSum == SumUpTo([i \in 1 .. Len(rowNum) |->
                     SumUpTo([j \in 1 .. Len(colNum) |->
                                rowNum[i] * acc[sq.rows[i]][sq.cols[j]]], Len(colNum))],
                     Len(rowNum))
        colSum == SumUpTo([i \in 1 .. Len(rowNum) |->
                     SumUpTo([j \in 1 .. Len(colNum) |->
                                colNum[j] * acc[sq.rows[i]][sq.cols[j]]], Len(colNum))],
                     Len(rowNum))
    IN  IF Len(sq.rows) # Len(rowNum) \/ Len(sq.cols) # Len(colNum)
        THEN [outcome |-> "TypeError", res |-> NoResult]
        ELSE IF scl = 0
        THEN [outcome |-> "ZeroDivisionError", res |-> NoResult]
        ELSE [outcome |-> "ok", res |-> [row |-> <<rowSum, scl>>, col |-> <<colSum, scl>>]]

\* ------------------------------------------------------------------ inputs

\* scale: 0, 1/2 and 1 (num, den).
Scales == {<<0, 1>>, <<1, 2>>, <<1, 1>>}

Zeros(sh) == [r \in Rows(sh) |-> [c \in Cols(sh) |-> 0]]

\* Small images: constant ones, and a dark background with a few bright pixels.
SmallShapes == (1 .. MaxSmall) \X (1 .. MaxSmall)

SmallImages(sh) ==
    {[r \in Rows(sh) |-> [c \in Cols(sh) |-> v]] : v \in {0, 1}} \cup
    {[r \in Rows(sh) |-> [c \in Cols(sh) |-> IF <<r, c>> \in B THEN 1 ELSE 0]] :
        B \in {X \in SUBSET Cells(sh) : Cardinality(X) >= 1 /\ Cardinality(X) <= MaxBright}}

\* Places of interest in a large grid: two corners, and cells around which
\* the refinement window fits or just fails to fit.
Spots(d) == {<<0, 0>>, <<d - 1, d - 1>>, <<Window, Window>>, <<Window + 1, Window - 1>>}

\* A large dark image with one bright pixel.
SpotImage(d, q) == [r \in 0 .. d - 1 |-> [c \in 0 .. d - 1 |-> IF <<r, c>> = q THEN 1 ELSE 0]]

\* Gradient vectors (gx, gy): zero row component, zero column component,
\* slopes of magnitude 1, above 1 and below 1, with and without halves.
GradValues ==
    {<<0, 1>>, <<1, 0>>, <<1, 1>>, <<2, -2>>, <<2, 3>>, <<-3, 2>>, <<1, -3>>, <<3, 1>>}

ActiveSets(d) == {A \in SUBSET Spots(d) : Cardinality(A) <= MaxActive}

\* The concentric circles: grid points at distance 5, 10 or 15 from (20, 20).
RingCenter == <<20, 20>>
RingRadii == {5, 10, 15}
RingRadius(p) ==
    LET dr == p[1] - RingCenter[1]
        dc == p[2] - RingCenter[2]
    IN  IF \E R \in RingRadii : dr * dr + dc * dc = R * R
        THEN CHOOSE R \in RingRadii : dr * dr + dc * dc = R * R
        ELSE 0

\* The unit of the ring field's values: (3/5, 4/5) is stored as (3, 4).
RingUnit == 5

\* Unit radial gradient, outward (o = 1) or inward (o = -1), in the convention
\* of image_gradient: y_deriv is minus the column derivative.
RingX(o) ==
    [r \in 0 .. RingDim - 1 |-> [c \in 0 .. RingDim - 1 |->
        IF RingRadius(<<r, c>>) = 0 THEN 0
        ELSE (o * RingUnit * (r - RingCenter[1])) \div RingRadius(<<r, c>>)]]
RingY(o) ==
    [r \in 0 .. RingDim - 1 |-> [c \in 0 .. RingDim - 1 |->
        IF RingRadius(<<r, c>>) = 0 THEN 0
        ELSE (-1 * o * RingUnit * (c - RingCenter[2])) \div RingRadius(<<r, c>>)]]

\* ------------------------------------------------------------- state machine

NotStarted ==
    /\ accumulator = <<>>
    /\ points_to_vote = <<>>
    /\ voted = <<>>
    /\ peak = <<-1, -1>>
    /\ outcome = "running"
    /\ res = NoResult

\* center_find(image, scale) is called.
InitCenterFind ==
    /\ pc = "center_find"
    /\ \/ \E sh \in SmallShapes : shape = sh /\ image \in SmallImages(sh)
       \/ \E q \in Spots(Dim) : shape = <<Dim, Dim>> /\ image = SpotImage(Dim, q)
    /\ x_deriv = <<>>
    /\ y_deriv = <<>>
    /\ gunit = 1
    /\ scale \in Scales
    /\ NotStarted

\* hough(x_deriv, y_deriv, scale) is called on a sparse gradient field.
InitHough ==
    /\ pc = "hough"
    /\ image = <<>>
    /\ shape = <<Dim, Dim>>
    /\ \E A \in ActiveSets(Dim) : \E g \in [A -> GradValues] :
          /\ x_deriv = [r \in 0 .. Dim - 1 |-> [c \in 0 .. Dim - 1 |->
                            IF <<r, c>> \in A THEN g[<<r, c>>][1] ELSE 0]]
          /\ y_deriv = [r \in 0 .. Dim - 1 |-> [c \in 0 .. Dim - 1 |->
                            IF <<r, c>> \in A THEN g[<<r, c>>][2] ELSE 0]]
    /\ gunit = 1
    /\ scale \in Scales
    /\ NotStarted

\* hough is called on the concentric-circle field.
InitRings ==
    /\ pc = "hough"
    /\ image = <<>>
    /\ shape = <<RingDim, RingDim>>
    /\ \E o \in {1, -1} : x_deriv = RingX(o) /\ y_deriv = RingY(o)
    /\ gunit = RingUnit
    /\ scale \in Scales
    /\ NotStarted

Init == InitCenterFind \/ InitHough \/ InitRings

\* Line 59: x_deriv, y_deriv = image_gradient(image).
ImageGradient ==
    /\ pc = "center_find"
    /\ x_deriv' = image_gradient(image, shape).gradx
    /\ y_deriv' = image_gradient(image, shape).grady
    /\ pc' = "hough"
    /\ UNCHANGED <<image, shape, gunit, scale, accumulator, points_to_vote,
                   voted, peak, outcome, res>>

\* Lines 110-116: the zeroed accumulator and the pixels that vote.
Threshold ==
    /\ pc = "hough"
    /\ accumulator' = Zeros(shape)
    /\ points_to_vote' = PointsToVote(x_deriv, y_deriv, shape, scale)
    /\ voted' = <<>>
    /\ pc' = "vote"
    /\ UNCHANGED <<image, shape, x_deriv, y_deriv, gunit, scale, peak, outcome, res>>

\* Lines 119-133: one iteration of the loop, for the k-th voting pixel.
VoteStep(k) ==
    LET r == AddVotes(accumulator,
                      VoteCells(x_deriv, y_deriv, shape, points_to_vote[k]), shape)
    IN  /\ voted' = Append(voted, k)
        /\ accumulator' = r.acc
        /\ IF r.ok
           THEN UNCHANGED <<pc, outcome>>
           ELSE pc' = "done" /\ outcome' = "IndexError"
        /\ UNCHANGED <<image, shape, x_deriv, y_deriv, gunit, scale,
                       points_to_vote, peak, res>>

Pending == (1 .. Len(points_to_vote)) \ {voted[i] : i \in 1 .. Len(voted)}

\* Line 118: the loop takes the pixels in the order of points_to_vote.
Vote ==
    /\ pc = "vote"
    /\ Pending # {}
    /\ VoteStep(Min(Pending))

\* The loop of line 118 run in an arbitrary order.
VoteAny ==
    /\ pc = "vote"
    /\ \E k \in Pending : VoteStep(k)

\* Line 135: the coarse center, once the loop has ended.
Peak ==
    /\ pc = "vote"
    /\ Pending = {}
    /\ peak' = CoarseCenter(accumulator, shape)
    /\ pc' = "refine"
    /\ UNCHANGED <<image, shape, x_deriv, y_deriv, gunit, scale, accumulator,
                   points_to_vote, voted, outcome, res>>

\* Lines 137-143: the weighted average around the coarse center.
Refine ==
    /\ pc = "refine"
    /\ outcome' = Refinement(accumulator, peak, shape).outcome
    /\ res' = Refinement(accumulator, peak, shape).res
    /\ pc' = "done"
    /\ UNCHANGED <<image, shape, x_deriv, y_deriv, gunit, scale, accumulator,
                   points_to_vote, voted, peak>>

Next == ImageGradient \/ Threshold \/ Vote \/ Peak \/ Refine

Spec == Init /\ [][Next]_vars

\* hough called directly, its loop taking the voting pixels in any order.
NextAnyOrder == Threshold \/ VoteAny \/ Peak \/ Refine

SpecAnyOrder == InitHough /\ [][NextAnyOrder]_vars

\* ------------------------------------------------------------------ claims

Square == shape[1] = shape[2]
Started == pc \in {"vote", "refine", "done"}
Range(f) == {f[i] : i \in DOMAIN f}
VotedPoints == {points_to_vote[voted[i]] : i \in 1 .. Len(voted)}

\* C1: on a square N x N grid every index pair the voting loop writes through
\* has its row and its column in [0, N): positions of a line that fall outside
\* the grid are left out, no index is negative (no wrap-around) and none is
\* out of range (no IndexError).
C1_VotesInBounds ==
    (Started /\ Square) =>
        /\ outcome # "IndexError"
        /\ \A p \in VotedPoints :
              \A c \in VoteCells(x_deriv, y_deriv, shape, p) :
                 /\ 0 <= c[1] /\ c[1] < shape[1]
                 /\ 0 <= c[2] /\ c[2] < shape[1]
        /\ DOMAIN accumulator = Rows(shape)
        /\ \A r \in Rows(shape) : DOMAIN accumulator[r] = Cols(shape)

\* A pixel has voted whose line leaves the grid: some but not all of its
\* positions were written.
C1_Witness ==
    /\ Started /\ Square
    /\ \E p \in VotedPoints :
          LET n == Cardinality(VoteCells(x_deriv, y_deriv, shape, p))
          IN  0 < n /\ n < shape[1]

\* The squared magnitude of the gradient at p, and the largest one.
Mag2(p) == At(x_deriv, p) * At(x_deriv, p) + At(y_deriv, p) * At(y_deriv, p)
TopMag2 ==
    LET V == {Mag2(p) : p \in Cells(shape)}
    IN  CHOOSE x \in V : \A y \in V : y <= x
AtThreshold(p, sc, top) == Mag2(p) * sc[2] * sc[2] = sc[1] * sc[1] * top
AboveThreshold(p, sc, top) == Mag2(p) * sc[2] * sc[2] > sc[1] * sc[1] * top
ScaleLeq(s1, s2) == s1[1] * s2[2] <= s2[1] * s1[2]

\* C7: right after thresholding, the pixels that vote are exactly those whose gradient magnitude is
\* strictly above scale * max(magnitude), a pixel exactly at the threshold is
\* left out, and for the same gradient field a larger scale selects a subset
\* of what a smaller scale selects (so never more pixels).
C7_ThresholdStrictMonotone ==
    (pc = "vote" /\ voted = <<>>) =>
        /\ LET top == TopMag2
               voting == Range(points_to_vote)
           IN  \A p \in Cells(shape) :
                  /\ p \in voting <=> AboveThreshold(p, scale, top)
                  /\ AtThreshold(p, scale, top) => p \notin voting
        /\ LET Q == {<<s, QualifyingSet(x_deriv, y_deriv, shape, s)>> : s \in Scales}
               voting == Range(points_to_vote)
           IN  /\ \A a \in Q : \A b \in Q :
                     ScaleLeq(a[1], b[1]) =>
                        /\ b[2] \subseteq a[2]
                        /\ Cardinality(b[2]) <= Cardinality(a[2])
               /\ \A a \in Q :
                     /\ ScaleLeq(scale, a[1]) => a[2] \subseteq voting
                     /\ ScaleLeq(a[1], scale) => voting \subseteq a[2]

\* At scale 1/2 a pixel with a non-zero gradient sits exactly at the threshold
\* and is left out while another pixel votes, and scale 0 selects strictly more.
C7_Witness ==
    /\ pc = "vote" /\ voted = <<>>
    /\ scale = <<1, 2>>
    /\ points_to_vote # <<>>
    /\ LET top == TopMag2
       IN  \E p \in Cells(shape) :
              Mag2(p) > 0 /\ AtThreshold(p, scale, top) /\ p \notin Range(points_to_vote)
    /\ Cardinality(QualifyingSet(x_deriv, y_deriv, shape, <<0, 1>>)) > Len(points_to_vote)

\* C8: the coarse center, when it is taken, is a cell holding the accumulator's maximum, and every
\* cell before it in row-major order (a smaller row, or the same row and a
\* smaller column) holds strictly less.
C8_CoarseCenterFirstMax ==
    pc = "refine" =>
        /\ peak \in Cells(shape)
        /\ \A q \in Cells(shape) :
              /\ At(accumulator, q) <= At(accumulator, peak)
              /\ (q[1] < peak[1] \/ (q[1] = peak[1] /\ q[2] < peak[2]))
                    => At(accumulator, q) < At(accumulator, peak)

\* Several cells hold the (non-zero) maximum when the coarse center is taken.
C8_Witness ==
    /\ pc = "refine"
    /\ At(accumulator, peak) >= 2
    /\ \E q \in Cells(shape) : q # peak /\ At(accumulator, q) = At(accumulator, peak)

\* C9: whatever the order in which the loop takes the voting pixels, once it
\* has ended every pixel has been taken once and each cell's count is the
\* number of voting pixels whose line passes through that cell.
C9_OrderIndependent ==
    pc = "refine" =>
        /\ Len(voted) = Len(points_to_vote)
        /\ {voted[i] : i \in 1 .. Len(voted)} = 1 .. Len(points_to_vote)
        /\ LET L == {<<k, VoteCells(x_deriv, y_deriv, shape, points_to_vote[k])>> :
                        k \in 1 .. Len(points_to_vote)}
           IN  \A p \in Cells(shape) :
                  At(accumulator, p) = Cardinality({l \in L : p \in l[2]})

\* The loop has ended after taking two crossing lines in the reverse of the
\* row-major order.
C9_Witness ==
    /\ pc = "refine"
    /\ Len(voted) >= 2
    /\ voted[1] > voted[2]
    /\ \E p \in Cells(shape) : At(accumulator, p) >= 2

\* The gradient field is non-zero only on the circles of radius 5, 10 and 15
\* around (20, 20), where it has magnitude 1 and is radial (x_deriv along the
\* row offset, y_deriv against the column offset, as image_gradient gives it).
IsRingField ==
    /\ shape = <<RingDim, RingDim>>
    /\ gunit = RingUnit
    /\ \A p \in Cells(shape) :
          IF RingRadius(p) = 0
          THEN At(x_deriv, p) = 0 /\ At(y_deriv, p) = 0
          ELSE /\ Mag2(p) = gunit * gunit
               /\ At(x_deriv, p) * (p[2] - RingCenter[2])
                     = -1 * At(y_deriv, p) * (p[1] - RingCenter[1])

\* |num / den - v| <= 1/2
WithinHalf(q, v) == q[2] > 0 /\ 2 * Abs(q[1] - v * q[2]) <= q[2]

\* C5: on the concentric-circle field (N >= 40, scale below 1) the accumulator's
\* maximum after voting is at (20, 20) and nowhere else, and the center
\* returned is within 0.5 of 20 in each coordinate.
C5_RingsCenter ==
    (pc \in {"refine", "done"} /\ shape = <<RingDim, RingDim>> /\ scale[1] < scale[2]
        /\ IsRingField) =>
        /\ peak = RingCenter
        /\ \A q \in Cells(shape) :
              q # RingCenter => At(accumulator, q) < At(accumulator, RingCenter)
        /\ pc = "done" =>
              /\ outcome = "ok"
              /\ WithinHalf(res.row, RingCenter[1])
              /\ WithinHalf(res.col, RingCenter[2])

\* hough has returned a center for the concentric-circle field at scale 1/2.
C5_Witness ==
    /\ pc = "done"
    /\ IsRingField
    /\ scale = <<1, 2>>
    /\ Len(points_to_vote) >= 24
    /\ outcome = "ok"

\* C2: when no pixel qualifies for voting, the call ends in the error outcome
\* NoQualifyingGradient.
C2_NoQualifyingGradientSignalled ==
    (pc = "done" /\ points_to_vote = <<>>) => outcome = "NoQualifyingGradient"

\* The pixel the loop takes next.
NextPoint == points_to_vote[Min(Pending)]

\* C3: a voting pixel (r, c) whose row-direction gradient is exactly 0 adds one
\* vote to every cell (i, c) of its column.
C3_ZeroGxVotesColumn ==
    [][(pc = "vote" /\ Pending # {} /\ Square /\ At(x_deriv, NextPoint) = 0) =>
          \A i \in Rows(shape) :
             accumulator'[i][NextPoint[2]] = accumulator[i][NextPoint[2]] + 1]_vars

\* The coarse center is within the window's half-width of a border.
NearBorder ==
    \/ peak[1] < Window \/ peak[1] > shape[1] - 1 - Window
    \/ peak[2] < Window \/ peak[2] > shape[2] - 1 - Window

\* q = num / den is a finite number in [0, hi].
InUnitRange(q, hi) == q[2] > 0 /\ 0 <= q[1] /\ q[1] <= hi * q[2]

\* C4: when the maximum of a (voted-on) square accumulator lies within 10 cells
\* of a border, refinement does not fault and returns a finite (row, column)
\* inside the grid.
C4_BorderPeakRefined ==
    (pc = "done" /\ Square /\ peak \in Cells(shape) /\ NearBorder
        /\ At(accumulator, peak) >= 1) =>
        /\ outcome = "ok"
        /\ InUnitRange(res.row, shape[1] - 1)
        /\ InUnitRange(res.col, shape[2] - 1)

\* C6: gradient computation on an image with fewer than 3 rows or fewer than
\* 3 columns ends in the error outcome InvalidImageShape and returns no grids.
C6_SmallImageRejected ==
    (pc # "center_find" /\ image # <<>> /\ (shape[1] < 3 \/ shape[2] < 3)) =>
        /\ outcome = "InvalidImageShape"
        /\ x_deriv = <<>>
        /\ y_deriv = <<>>

\* C10: when the accumulator values inside the refinement window sum to zero,
\* refinement ends in the error outcome that names the degenerate window
\* (numpy's own "weights sum to zero" error is accepted for it).
C10_ZeroWindowSignalled ==
    (pc = "done" /\ peak \in Cells(shape)
        /\ WeightSum(accumulator, SmallSq(accumulator, peak, shape)) = 0) =>
        outcome \in {"DegenerateRefinementWindow", "ZeroDivisionError"}

\* num / den rounded to the nearest integer, halves to the even one (den # 0).
RoundRatio(num, den) ==
    LET n == IF den < 0 THEN -num ELSE num
        d == Abs(den)
        fl == n \div d
        twice == 2 * (n - fl * d)
    IN  IF twice < d THEN fl
        ELSE IF twice > d THEN fl + 1
        ELSE IF fl % 2 = 0 THEN fl ELSE fl + 1

\* The cells C11 names for a pixel p with gx # 0, in exact arithmetic, with
\* slope = gy / gx.  For slope = 0 the product (1 / slope) * (j - c) is 0 at
\* j = c, where the row is r, and no row exists for any other column.
ClaimedCells(p) ==
    LET gxv == At(x_deriv, p)
        gyv == At(y_deriv, p)
        N == shape[1]
    IN  IF Abs(gyv) > Abs(gxv)
        THEN {q \in Cells(shape) : q[2] = RoundRatio(p[2] * gxv - gyv * (q[1] - p[1]), gxv)}
        ELSE IF gyv # 0
        THEN {q \in Cells(shape) : q[1] = RoundRatio(p[1] * gyv - gxv * (q[2] - p[2]), gyv)}
        ELSE {p}

\* The iteration for NextPoint raises the count of exactly the cells in S by
\* one and leaves every other cell as it was.
RaisesExactly(S) ==
    \A q \in Cells(shape) :
        At(accumulator', q) = At(accumulator, q) + (IF q \in S THEN 1 ELSE 0)

\* C11: for a voting pixel (r, c) with gx # 0 (slope = 0 included), one
\* iteration of the loop raises by exactly 1 the cells
\* (i, round(c - slope * (i - r))) when |slope| > 1, and otherwise the cells
\* (round(r - (1 / slope) * (j - c)), j), as far as they lie in the grid, and
\* changes no other cell.
C11_LineCellsExact ==
    [][(pc = "vote" /\ Pending # {} /\ Square /\ At(x_deriv, NextPoint) # 0) =>
          RaisesExactly(ClaimedCells(NextPoint))]_vars

\* The coarse peak lies at least Window cells away from every border.
Interior == ~NearBorder

\* The weights of the (2 * Window + 1)-square window centered on the peak,
\* summed along grid row i and along grid column j of the accumulator.
RowWeight(i) ==
    SumUpTo([k \in 1 .. 2 * Window + 1 |-> accumulator[i][peak[2] - Window + k - 1]],
            2 * Window + 1)
ColWeight(j) ==
    SumUpTo([k \in 1 .. 2 * Window + 1 |-> accumulator[peak[1] - Window + k - 1][j]],
            2 * Window + 1)

\* sum(w_i), sum(row_i * w_i) and sum(col_i * w_i) over that window.
TotalWeight ==
    SumUpTo([k \in 1 .. 2 * Window + 1 |-> RowWeight(peak[1] - Window + k - 1)],
            2 * Window + 1)
RowMoment ==
    SumUpTo([k \in 1 .. 2 * Window + 1 |->
                (peak[1] - Window + k - 1) * RowWeight(peak[1] - Window + k - 1)],
            2 * Window + 1)
ColMoment ==
    SumUpTo([k \in 1 .. 2 * Window + 1 |->
                (peak[2] - Window + k - 1) * ColWeight(peak[2] - Window + k - 1)],
            2 * Window + 1)

\* The fraction q = <<num, den>> equals a / b (b > 0).
FracEq(q, a, b) == q[2] # 0 /\ q[1] * b = a * q[2]

\* The fraction q = <<num, den>>, den > 0, lies in [lo, hi].
FracWithin(q, lo, hi) == q[2] > 0 /\ lo * q[2] <= q[1] /\ q[1] <= hi * q[2]

\* C12: for a coarse peak (m, n) at least 10 cells away from every border the
\* refinement returns the accumulator-weighted centroid of the 21 x 21 window
\* centered on (m, n), which lies in [m - 10, m + 10] x [n - 10, n + 10], and
\* leaves the accumulator as it was.
C12_InteriorCentroid ==
    [][(pc = "refine" /\ Interior) =>
          /\ outcome' = "ok"
          /\ TotalWeight > 0
          /\ FracEq(res'.row, RowMoment, TotalWeight)
          /\ FracEq(res'.col, ColMoment, TotalWeight)
          /\ FracWithin(res'.row, peak[1] - Window, peak[1] + Window)
          /\ FracWithin(res'.col, peak[2] - Window, peak[2] + Window)
          /\ accumulator' = accumulator]_vars

\* A refinement around an interior peak has returned a center that is not the
\* peak itself, from a window holding several different weights.
C12_Witness ==
    /\ pc = "done"
    /\ Interior
    /\ outcome = "ok"
    /\ res.row[1] # peak[1] * res.row[2]
    /\ res.col[1] # peak[2] * res.col[2]
    /\ At(accumulator, peak) >= 2

\* C13: every voting pixel votes on its own cell, whatever its gradient
\* (gx = 0 and gy = 0 included); hence, once a non-empty set of pixels has
\* voted, the accumulator maximum is at least 1 and the weights of the
\* refinement window around the maximum do not sum to zero.
C13_OwnCellVoted ==
    (pc = "refine" /\ Square /\ points_to_vote # <<>> /\ outcome = "running") =>
        /\ \A i \in 1 .. Len(points_to_vote) : At(accumulator, points_to_vote[i]) >= 1
        /\ At(accumulator, peak) >= 1
        /\ WeightSum(accumulator, SmallSq(accumulator, peak, shape)) # 0

====
